---- MODULE Spec2Model ----
(***************************************************************************)
(* The two animation drivers of the teaser video (src/anim_violin.c, the   *)
(* violin, and src/unnamed/part_000, the eagle) as one state machine.      *)
(* The renderer library the drivers call (textures, framebuffers, the      *)
(* rasterizer, the loaders) is not part of the repository: a call is       *)
(* modelled by its effect on a heap of objects and on the rasterizer's     *)
(* state, and by a record of the call.  A creation or a load may fail and  *)
(* return NULL.  A call that hands a NULL handle to the library either     *)
(* ends the process (pc = "crashed") or returns without effect.            *)
(* Floats are modelled as exact rationals <<numerator, denominator>>.      *)
(***************************************************************************)
EXTENDS Integers, Sequences, FiniteSets, TLC

VARIABLES
    driver,        \* "violin" or "eagle": which main() runs
    pc,            \* position in main / initialize_rendering / render_model
    heap,          \* objects created so far; a handle is an index into heap
    model,         \* struct model of main
    glob,          \* the file-level statics
    raster,        \* the rasterizer's current viewport, shaders, clear color
    uniform,       \* struct standard_uniform of render_model
    i,             \* frame index of main's loop
    t,             \* triangle index of render_model's loop
    anim,          \* the per-frame locals of main's loop body
    calls,         \* how many times each function was called
    null_calls,    \* library calls that were handed a NULL handle
    stale_calls,   \* library calls that were handed a destroyed handle
    pixel_writes,  \* one record per set_texture_pixels call
    output,        \* what printf wrote
    frame_log,     \* the library calls of the current render_model, in order
    saved,         \* one record per save_image call
    sb_in,         \* a light clip-space point handed to scale_bias
    sb_out         \* scale_bias applied to sb_in

vars == <<driver, pc, heap, model, glob, raster, uniform, i, t, anim, calls,
          null_calls, stale_calls, pixel_writes, output, frame_log, saved,
          sb_in, sb_out>>

-----------------------------------------------------------------------------
(* Bounds of the model. *)

\* Largest triangle_count of a loaded mesh.
MaxTriangles == 2
\* Width and height of a texture decoded from an asset file.
AssetSize == 2
\* Clip-space coordinates are n / CoordDen with n in -CoordDen..CoordDen.
CoordDen == 2

-----------------------------------------------------------------------------
(* Program constants. *)

NULL == 0
FPS == 30
IMAGE_HEIGHT == 1024
IMAGE_WIDTH == IF driver = "violin" THEN 1536 ELSE 1024
\* 4.5f
ANIMATION_TIME == <<45, 10>>

\* int frame_count = (int)(ANIMATION_TIME * FPS);
frame_count == (ANIMATION_TIME[1] * FPS) \div ANIMATION_TIME[2]

-----------------------------------------------------------------------------
(* Rationals. *)

RatAdd(a, b) == <<a[1] * b[2] + b[1] * a[2], a[2] * b[2]>>
RatSub(a, b) == <<a[1] * b[2] - b[1] * a[2], a[2] * b[2]>>
RatMul(a, b) == <<a[1] * b[1], a[2] * b[2]>>
RatEq(a, b) == a[1] * b[2] = b[1] * a[2]
RatLt(a, b) == a[1] * b[2] < b[1] * a[2]
RatLe(a, b) == a[1] * b[2] <= b[1] * a[2]

\* float_lerp(a, b, t) of math/math_utility.h: a + (b - a) * t.
float_lerp(a, b, x) == RatAdd(a, RatMul(RatSub(b, a), x))

\* A loop that interpolates over the closed range: t = i / (frame_count - 1).
FrameT_Inclusive(k) == <<k, frame_count - 1>>

\* float t = (float)i / frame_count;
FrameT(k) == <<k, frame_count>>

-----------------------------------------------------------------------------
(* The library's objects. *)

\* Bytes per pixel of a texture format.
PixelSize(format) ==
    CASE format = "R8" -> 1
      [] format = "RGBA8" -> 4
      [] format = "SRGB8_A8" -> 4
      [] format = "DEPTH_FLOAT" -> 4

Object(kind, format, w, h, n) ==
    [kind |-> kind, format |-> format, width |-> w, height |-> h,
     triangle_count |-> n, written |-> "no", data |-> <<>>,
     color |-> NULL, depth |-> NULL, destroys |-> 0]

Texture(format, w, h) == Object("texture", format, w, h, 0)
Framebuffer == Object("framebuffer", "none", 0, 0, 0)
Mesh(n) == Object("mesh", "none", 0, 0, n)

\* create_texture / create_framebuffer / load_mesh / load_image, called
\* Len(objs) times in a row: the k-th call succeeds iff oks[k].  Alloc is the
\* heap afterwards, Handle the pointer the k-th call returned.
RECURSIVE Alloc(_, _, _)
Alloc(h, objs, oks) ==
    IF objs = <<>> THEN h
    ELSE Alloc(IF Head(oks) THEN Append(h, Head(objs)) ELSE h,
               Tail(objs), Tail(oks))

Handle(h, oks, k) ==
    IF oks[k] THEN Len(h) + Cardinality({j \in 1..k : oks[j]}) ELSE NULL

\* destroy_texture, destroy_framebuffer, destroy_mesh: NULL is accepted (main
\* hands destroy_texture the textures it has just found to be NULL).
RECURSIVE Destroy(_, _)
Destroy(h, handles) ==
    IF handles = <<>> THEN h
    ELSE LET x == Head(handles) IN
         Destroy(IF x = NULL THEN h
                 ELSE [h EXCEPT ![x].destroys = @ + 1], Tail(handles))

Stale(hs) == \E x \in hs : x # NULL /\ heap[x].destroys > 0
HasNull(hs) == \E x \in hs : x = NULL

Count(name) == [calls EXCEPT ![name] = @ + 1]

\* The bytes of the float 1.0f (IEEE 754 binary32, little endian).
FloatOne == <<0, 0, 128, 63>>
\* What a read past the end of a caller's buffer may find.
IndeterminateBytes == {0, 255}

\* set_texture_pixels(texture, pixels): copies width * height * pixel size
\* bytes from pixels; bytes past the end of the caller's buffer are junk.
RequiredBytes(h, tex) == h[tex].width * h[tex].height * PixelSize(h[tex].format)

SetPixels(h, tex, buf, junk) ==
    [h EXCEPT ![tex].data = [k \in 1..RequiredBytes(h, tex) |->
                                IF k <= Len(buf) THEN buf[k] ELSE junk],
              ![tex].written = "set"]

PixelWrite(h, tex, buf) ==
    [texture |-> tex, required |-> RequiredBytes(h, tex), supplied |-> Len(buf)]

\* clear_framebuffer / draw_triangle write the textures attached to fb.
WriteAttachments(h, fb, how) ==
    [x \in DOMAIN h |->
        IF x # NULL /\ (x = h[fb].color \/ x = h[fb].depth)
        THEN [h[x] EXCEPT !.written = how, !.data = <<>>]
        ELSE h[x]]

\* sprintf's "%.3d": the decimal digits of k, zero-padded to three.
RECURSIVE Decimal(_)
Decimal(k) == IF k < 10 THEN <<k>> ELSE Append(Decimal(k \div 10), k % 10)

RECURSIVE Pad(_, _)
Pad(ds, n) == IF Len(ds) >= n THEN ds ELSE Pad(<<0>> \o ds, n)

\* The name with "%d" in place of "%.3d": no padding.
image_name_Unpadded(k) ==
    [prefix |-> IF driver = "violin" THEN "violin/v-" ELSE "eagle/e-",
     digits |-> Decimal(k), suffix |-> ".tga"]

\* sprintf(image_name, "violin/v-%.3d.tga", i) / "eagle/e-%.3d.tga"
image_name(k) ==
    [prefix |-> IF driver = "violin" THEN "violin/v-" ELSE "eagle/e-",
     digits |-> Pad(Decimal(k), 3), suffix |-> ".tga"]

-----------------------------------------------------------------------------
(* Matrices: 4x4, row-major, applied to column vectors.  Entries of          *)
(* scale_bias are in halves, so are the entries of a product with it.        *)

ZeroMatrix == [r \in 1..4 |-> [c \in 1..4 |-> 0]]

\* The matrix with the bias written in the last row (the transposed layout).
scale_bias_Transposed ==
    <<<<1, 0, 0, 0>>,
      <<0, 1, 0, 0>>,
      <<0, 0, 1, 0>>,
      <<1, 1, 1, 2>>>>

\* matrix4x4 scale_bias of render_model, each entry times two.
scale_bias ==
    <<<<1, 0, 0, 1>>,
      <<0, 1, 0, 1>>,
      <<0, 0, 1, 1>>,
      <<0, 0, 0, 2>>>>

\* matrix4x4_multiply(a, b)
matrix4x4_multiply(a, b) ==
    [r \in 1..4 |-> [c \in 1..4 |->
        a[r][1] * b[1][c] + a[r][2] * b[2][c] + a[r][3] * b[3][c] + a[r][4] * b[4][c]]]

\* The product of matrix m and column vector v.
matrix4x4_multiply_vector4(m, v) ==
    [r \in 1..4 |-> m[r][1] * v[1] + m[r][2] * v[2] + m[r][3] * v[3] + m[r][4] * v[4]]

-----------------------------------------------------------------------------
(* Initial state: the statics as initialized at file level.                 *)

InitStatics ==
    [shadow_framebuffer |-> NULL, shadow_map |-> NULL, framebuffer |-> NULL,
     color_buffer |-> NULL, depth_buffer |-> NULL,
     light_world2clip |-> ZeroMatrix,
     rotation_y |-> IF driver = "violin" THEN <<796, 1000>> ELSE <<-9, 10>>,
     camera_position |->
        IF driver = "violin"
        THEN [x |-> <<0, 1>>, y |-> <<24, 100>>, z |-> <<326, 1000>>]
        ELSE [x |-> <<0, 1>>, y |-> <<6, 10>>, z |-> <<22, 10>>],
     light_direction |->
        IF driver = "violin"
        THEN [x |-> <<0, 1>>, y |-> <<24, 100>>, z |-> <<-326, 1000>>]
        ELSE [x |-> <<1, 1>>, y |-> <<1, 1>>, z |-> <<1, 1>>]]

NoModel ==
    [mesh |-> NULL, base_color_map |-> NULL, normal_map |-> NULL,
     metallic_map |-> NULL, roughness_map |-> NULL]

NoUniform == [shadow_map |-> NULL, world2light |-> ZeroMatrix,
              rotation_y |-> <<0, 1>>, normal_map |-> NULL,
              base_color_map |-> NULL, metallic_map |-> NULL,
              roughness_map |-> NULL]

NoCalls == [initialize_rendering |-> 0, render_model |-> 0,
            clear_framebuffer |-> 0, draw_triangle |-> 0, save_image |-> 0,
            end_rendering |-> 0]

InitCommon ==
    /\ heap = <<>>
    /\ model = NoModel
    /\ glob = InitStatics
    /\ raster = [viewport |-> <<>>, vertex_shader |-> "unset",
                 fragment_shader |-> "unset", clear_color |-> <<>>]
    /\ uniform = NoUniform
    /\ i = 0
    /\ t = 0
    /\ anim = [t |-> <<0, 1>>]
    /\ calls = NoCalls
    /\ null_calls = {}
    /\ stale_calls = {}
    /\ pixel_writes = <<>>
    /\ output = <<>>
    /\ frame_log = <<>>
    /\ saved = <<>>

Init ==
    /\ driver \in {"violin", "eagle"}
    /\ pc = "load_mesh"
    /\ InitCommon
    /\ sb_in = <<>>
    /\ sb_out = <<>>

-----------------------------------------------------------------------------
(* Bookkeeping shared by the library calls.                                  *)

\* The call `name` was handed the handles hs, none of them NULL.
Track(name, hs) ==
    stale_calls' = IF Stale(hs) THEN stale_calls \cup {name} ELSE stale_calls

\* The call `name` was handed a NULL handle: the process ends there, or the
\* library returns and main goes on at `next`.
NullCall(name, next) ==
    /\ null_calls' = null_calls \cup {name}
    /\ pc' \in {next, "crashed"}

scratch == <<sb_in, sb_out>>

-----------------------------------------------------------------------------
(* main, up to initialize_rendering.                                         *)

\* model.mesh = load_mesh(model_path); if (model.mesh == NULL) {...}
LoadMesh ==
    /\ pc = "load_mesh"
    /\ \/ \E n \in 1..MaxTriangles :
            /\ heap' = Append(heap, Mesh(n))
            /\ model' = [model EXCEPT !.mesh = Len(heap) + 1]
            /\ pc' = "load_textures"
            /\ output' = output
       \/ /\ model' = [model EXCEPT !.mesh = NULL]
          /\ output' = Append(output, "Cannot load .obj file.\n")
          /\ pc' = "done"
          /\ heap' = heap
    /\ UNCHANGED <<driver, glob, raster, uniform, i, t, anim, calls, null_calls,
                   stale_calls, pixel_writes, frame_log, saved, scratch>>

\* The four textures main asks for, in the order of its calls: load_image
\* for all four (violin), load_image and three create_texture (eagle).
MaterialTextures ==
    IF driver = "violin"
    THEN <<Texture("SRGB8_A8", AssetSize, AssetSize),
           Texture("RGBA8", AssetSize, AssetSize),
           Texture("R8", AssetSize, AssetSize),
           Texture("R8", AssetSize, AssetSize)>>
    ELSE <<Texture("SRGB8_A8", AssetSize, AssetSize),
           Texture("RGBA8", 1, 1),
           Texture("R8", 1, 1),
           Texture("R8", 1, 1)>>

LoadTextures ==
    /\ pc = "load_textures"
    /\ \E oks \in [1..4 -> BOOLEAN] :
          /\ heap' = Alloc(heap, MaterialTextures, oks)
          /\ model' = [model EXCEPT !.base_color_map = Handle(heap, oks, 1),
                                    !.normal_map = Handle(heap, oks, 2),
                                    !.metallic_map = Handle(heap, oks, 3),
                                    !.roughness_map = Handle(heap, oks, 4)]
    /\ pc' = "check_textures"
    /\ UNCHANGED <<driver, glob, raster, uniform, i, t, anim, calls, null_calls,
                   stale_calls, pixel_writes, output, frame_log, saved, scratch>>

\* The check without its first operand.
TexturesMissing_NoBaseColor ==
    \/ model.normal_map = NULL
    \/ model.metallic_map = NULL
    \/ model.roughness_map = NULL

\* if (model.base_color_map == NULL || model.normal_map == NULL || ...)
TexturesMissing ==
    \/ model.base_color_map = NULL
    \/ model.normal_map = NULL
    \/ model.metallic_map = NULL
    \/ model.roughness_map = NULL

\* The release without destroy_mesh.
ModelHandles_NoMesh ==
    <<model.base_color_map, model.normal_map, model.metallic_map,
      model.roughness_map>>

\* destroy_mesh(model.mesh); destroy_texture(model.base_color_map); ...
ModelHandles ==
    <<model.mesh, model.base_color_map, model.normal_map, model.metallic_map,
      model.roughness_map>>

CheckTextures ==
    /\ pc = "check_textures"
    /\ \/ /\ TexturesMissing
          /\ output' = Append(output, "Cannot load texture files.\n")
          /\ heap' = Destroy(heap, ModelHandles)
          /\ pc' = "done"
       \/ /\ ~TexturesMissing
          /\ pc' = IF driver = "eagle" THEN "set_defaults"
                   ELSE "initialize_rendering"
          /\ UNCHANGED <<output, heap>>
    /\ UNCHANGED <<driver, model, glob, raster, uniform, i, t, anim, calls,
                   null_calls, stale_calls, pixel_writes, frame_log, saved,
                   scratch>>

\* uint8_t normal_data[3] = {128, 128, 255};
normal_data == <<128, 128, 255>>
\* uint8_t white = 255;
white == <<255>>

\* The eagle's three set_texture_pixels calls.
SetDefaults ==
    /\ pc = "set_defaults"
    /\ \E junk \in IndeterminateBytes :
          heap' = SetPixels(SetPixels(SetPixels(heap, model.normal_map,
                                                normal_data, junk),
                                      model.metallic_map, white, junk),
                            model.roughness_map, white, junk)
    /\ pixel_writes' = pixel_writes \o
          <<PixelWrite(heap, model.normal_map, normal_data),
            PixelWrite(heap, model.metallic_map, white),
            PixelWrite(heap, model.roughness_map, white)>>
    /\ Track("set_texture_pixels",
             {model.normal_map, model.metallic_map, model.roughness_map})
    /\ pc' = "initialize_rendering"
    /\ UNCHANGED <<driver, model, glob, raster, uniform, i, t, anim, calls,
                   null_calls, output, frame_log, saved, scratch>>

-----------------------------------------------------------------------------
(* initialize_rendering                                                      *)

\* attach_texture_to_framebuffer(fb, slot, tex), main going on at `next`.
Attach(fb, slot, tex, next) ==
    \/ /\ ~HasNull({fb, tex})
       /\ heap' = [heap EXCEPT ![fb][slot] = tex]
       /\ Track("attach_texture_to_framebuffer", {fb, tex})
       /\ pc' = next
       /\ null_calls' = null_calls
    \/ /\ HasNull({fb, tex})
       /\ NullCall("attach_texture_to_framebuffer", next)
       /\ UNCHANGED <<heap, stale_calls>>

\* shadow_framebuffer = create_framebuffer();
\* shadow_map = create_texture(TEXTURE_FORMAT_DEPTH_FLOAT, 1, 1);
InitCreateShadow ==
    /\ pc = "initialize_rendering"
    /\ \E oks \in [1..2 -> BOOLEAN] :
          /\ heap' = Alloc(heap, <<Framebuffer, Texture("DEPTH_FLOAT", 1, 1)>>, oks)
          /\ glob' = [glob EXCEPT !.shadow_framebuffer = Handle(heap, oks, 1),
                                  !.shadow_map = Handle(heap, oks, 2)]
    /\ calls' = Count("initialize_rendering")
    /\ pc' = "init_set_shadow"
    /\ UNCHANGED <<driver, model, raster, uniform, i, t, anim, null_calls,
                   stale_calls, pixel_writes, output, frame_log, saved, scratch>>

\* float shadow_value = 1.0f; set_texture_pixels(shadow_map, &shadow_value);
InitSetShadowPixels ==
    /\ pc = "init_set_shadow"
    /\ \/ /\ glob.shadow_map # NULL
          /\ heap' = SetPixels(heap, glob.shadow_map, FloatOne, 0)
          /\ pixel_writes' = Append(pixel_writes,
                                    PixelWrite(heap, glob.shadow_map, FloatOne))
          /\ Track("set_texture_pixels", {glob.shadow_map})
          /\ pc' = "init_attach_shadow"
          /\ null_calls' = null_calls
       \/ /\ glob.shadow_map = NULL
          /\ NullCall("set_texture_pixels", "init_attach_shadow")
          /\ UNCHANGED <<heap, pixel_writes, stale_calls>>
    /\ UNCHANGED <<driver, model, glob, raster, uniform, i, t, anim, calls,
                   output, frame_log, saved, scratch>>

\* attach_texture_to_framebuffer(shadow_framebuffer, DEPTH_ATTACHMENT, shadow_map);
InitAttachShadow ==
    /\ pc = "init_attach_shadow"
    /\ Attach(glob.shadow_framebuffer, "depth", glob.shadow_map, "init_create_main")
    /\ UNCHANGED <<driver, model, glob, raster, uniform, i, t, anim, calls,
                   pixel_writes, output, frame_log, saved, scratch>>

\* The depth buffer sized by SHADOW_MAP_WIDTH x SHADOW_MAP_HEIGHT (1024 x 1024).
MainTargets_ShadowSized ==
    <<Framebuffer,
      Texture("SRGB8_A8", IMAGE_WIDTH, IMAGE_HEIGHT),
      Texture("DEPTH_FLOAT", 1024, 1024)>>

\* create_framebuffer(); create_texture(TEXTURE_FORMAT_SRGB8_A8, IMAGE_WIDTH,
\* IMAGE_HEIGHT); create_texture(TEXTURE_FORMAT_DEPTH_FLOAT, IMAGE_WIDTH, IMAGE_HEIGHT);
MainTargets ==
    <<Framebuffer,
      Texture("SRGB8_A8", IMAGE_WIDTH, IMAGE_HEIGHT),
      Texture("DEPTH_FLOAT", IMAGE_WIDTH, IMAGE_HEIGHT)>>

\* framebuffer = create_framebuffer(); color_buffer = create_texture(...);
\* depth_buffer = create_texture(...);
InitCreateMain ==
    /\ pc = "init_create_main"
    /\ \E oks \in [1..3 -> BOOLEAN] :
          /\ heap' = Alloc(heap, MainTargets, oks)
          /\ glob' = [glob EXCEPT !.framebuffer = Handle(heap, oks, 1),
                                  !.color_buffer = Handle(heap, oks, 2),
                                  !.depth_buffer = Handle(heap, oks, 3)]
    /\ pc' = "init_attach_color"
    /\ UNCHANGED <<driver, model, raster, uniform, i, t, anim, calls, null_calls,
                   stale_calls, pixel_writes, output, frame_log, saved, scratch>>

\* attach_texture_to_framebuffer(framebuffer, COLOR_ATTACHMENT, color_buffer);
InitAttachColor ==
    /\ pc = "init_attach_color"
    /\ Attach(glob.framebuffer, "color", glob.color_buffer, "init_attach_depth")
    /\ UNCHANGED <<driver, model, glob, raster, uniform, i, t, anim, calls,
                   pixel_writes, output, frame_log, saved, scratch>>

\* attach_texture_to_framebuffer(framebuffer, DEPTH_ATTACHMENT, depth_buffer);
InitAttachDepth ==
    /\ pc = "init_attach_depth"
    /\ Attach(glob.framebuffer, "depth", glob.depth_buffer, "loop_head")
    /\ UNCHANGED <<driver, model, glob, raster, uniform, i, t, anim, calls,
                   pixel_writes, output, frame_log, saved, scratch>>

-----------------------------------------------------------------------------
(* main's frame loop                                                         *)

\* The loop body before render_model: the interpolated parameters of frame k.
FrameParameters(k) ==
    IF driver = "violin"
    THEN [t |-> FrameT(k),
          camera_distance |-> float_lerp(<<4, 10>>, <<3, 10>>, FrameT(k)),
          light_direction_delta_x |-> float_lerp(<<2, 10>>, <<-2, 10>>, FrameT(k))]
    ELSE [t |-> FrameT(k),
          rotation_y |-> float_lerp(<<0, 1>>, <<-94, 100>>, FrameT(k)),
          camera_y |-> float_lerp(<<0, 10>>, <<6, 10>>, FrameT(k)),
          camera_z |-> float_lerp(<<20, 10>>, <<22, 10>>, FrameT(k))]

\* The statics the loop body assigns from the parameters p.
FrameStatics(p) ==
    IF driver = "violin"
    THEN [glob EXCEPT
            !.camera_position = [std_times |-> p.camera_distance],
            !.light_direction =
                [x |-> RatAdd(InitStatics.light_direction.x, p.light_direction_delta_x),
                 y |-> InitStatics.light_direction.y,
                 z |-> InitStatics.light_direction.z]]
    ELSE [glob EXCEPT
            !.rotation_y = p.rotation_y,
            !.camera_position = [x |-> <<0, 1>>, y |-> p.camera_y, z |-> p.camera_z]]

\* for (int i = 0; i < frame_count; i++) { float t = ...; ... render_model(&model);
LoopHead ==
    /\ pc = "loop_head"
    /\ \/ /\ i < frame_count
          /\ anim' = FrameParameters(i)
          /\ glob' = FrameStatics(FrameParameters(i))
          /\ frame_log' = <<>>
          /\ calls' = Count("render_model")
          /\ pc' = "set_viewport"
       \/ /\ ~(i < frame_count)
          /\ pc' = "end_rendering"
          /\ UNCHANGED <<anim, glob, frame_log, calls>>
    /\ UNCHANGED <<driver, heap, model, raster, uniform, i, t, null_calls,
                   stale_calls, pixel_writes, output, saved, scratch>>

-----------------------------------------------------------------------------
(* render_model                                                              *)

Logged(op, arg) == Append(frame_log, [op |-> op, arg |-> arg])

\* set_viewport(0, 0, IMAGE_WIDTH, IMAGE_HEIGHT);
SetViewport ==
    /\ pc = "set_viewport"
    /\ raster' = [raster EXCEPT !.viewport = <<0, 0, IMAGE_WIDTH, IMAGE_HEIGHT>>]
    /\ frame_log' = Logged("set_viewport", <<0, 0, IMAGE_WIDTH, IMAGE_HEIGHT>>)
    /\ pc' = "set_vertex_shader"
    /\ UNCHANGED <<driver, heap, model, glob, uniform, i, t, anim, calls,
                   null_calls, stale_calls, pixel_writes, output, saved, scratch>>

\* set_vertex_shader(standard_vertex_shader);
SetVertexShader ==
    /\ pc = "set_vertex_shader"
    /\ raster' = [raster EXCEPT !.vertex_shader = "standard_vertex_shader"]
    /\ frame_log' = Logged("set_vertex_shader", "standard_vertex_shader")
    /\ pc' = "set_fragment_shader"
    /\ UNCHANGED <<driver, heap, model, glob, uniform, i, t, anim, calls,
                   null_calls, stale_calls, pixel_writes, output, saved, scratch>>

\* set_fragment_shader(standard_fragment_shader);
SetFragmentShader ==
    /\ pc = "set_fragment_shader"
    /\ raster' = [raster EXCEPT !.fragment_shader = "standard_fragment_shader"]
    /\ frame_log' = Logged("set_fragment_shader", "standard_fragment_shader")
    /\ pc' = "set_clear_color"
    /\ UNCHANGED <<driver, heap, model, glob, uniform, i, t, anim, calls,
                   null_calls, stale_calls, pixel_writes, output, saved, scratch>>

\* set_clear_color(0.0f, 0.0f, 0.0f, 0.0f);
SetClearColor ==
    /\ pc = "set_clear_color"
    /\ raster' = [raster EXCEPT !.clear_color = <<0, 0, 0, 0>>]
    /\ frame_log' = Logged("set_clear_color", <<0, 0, 0, 0>>)
    /\ pc' = "clear_framebuffer"
    /\ UNCHANGED <<driver, heap, model, glob, uniform, i, t, anim, calls,
                   null_calls, stale_calls, pixel_writes, output, saved, scratch>>

\* The framebuffer render_model clears and draws into.
RenderTarget == glob.framebuffer

\* clear_framebuffer(framebuffer);
ClearFramebuffer ==
    /\ pc = "clear_framebuffer"
    /\ frame_log' = Logged("clear_framebuffer", RenderTarget)
    /\ calls' = Count("clear_framebuffer")
    /\ \/ /\ RenderTarget # NULL
          /\ heap' = WriteAttachments(heap, RenderTarget, "cleared")
          /\ Track("clear_framebuffer",
                   {RenderTarget, heap[RenderTarget].color, heap[RenderTarget].depth})
          /\ pc' = "build_uniform"
          /\ null_calls' = null_calls
       \/ /\ RenderTarget = NULL
          /\ NullCall("clear_framebuffer", "build_uniform")
          /\ UNCHANGED <<heap, stale_calls>>
    /\ UNCHANGED <<driver, model, glob, raster, uniform, i, t, anim,
                   pixel_writes, output, saved, scratch>>

\* struct standard_uniform uniform; uniform.local2world = ...; ...
\* const struct mesh *mesh = model->mesh; ... for (size_t t = 0; ...
BuildUniform ==
    /\ pc = "build_uniform"
    /\ uniform' = [shadow_map |-> glob.shadow_map,
                   world2light |-> matrix4x4_multiply(scale_bias, glob.light_world2clip),
                   rotation_y |-> glob.rotation_y,
                   normal_map |-> model.normal_map,
                   base_color_map |-> model.base_color_map,
                   metallic_map |-> model.metallic_map,
                   roughness_map |-> model.roughness_map]
    /\ t' = 0
    /\ pc' = "draw_loop"
    /\ UNCHANGED <<driver, heap, model, glob, raster, i, anim, calls, null_calls,
                   stale_calls, pixel_writes, output, frame_log, saved, scratch>>

\* The handles one draw_triangle call reads: the target, its attachments,
\* the mesh and the textures of the uniform block.
DrawHandles ==
    {RenderTarget, model.mesh, uniform.shadow_map, uniform.normal_map,
     uniform.base_color_map, uniform.metallic_map, uniform.roughness_map}

\* The loop condition with <= in place of <.
MoreTriangles_OffByOne == t <= heap[model.mesh].triangle_count

\* t < triangle_count
MoreTriangles == t < heap[model.mesh].triangle_count

\* for (size_t t = 0; t < triangle_count; t++) { ... draw_triangle(...); }
DrawTriangle ==
    /\ pc = "draw_loop"
    /\ MoreTriangles
    /\ frame_log' = Logged("draw_triangle", t)
    /\ calls' = Count("draw_triangle")
    /\ t' = t + 1
    /\ \/ /\ ~HasNull(DrawHandles)
          /\ heap' = WriteAttachments(heap, RenderTarget, "drawn")
          /\ Track("draw_triangle",
                   DrawHandles \cup {heap[RenderTarget].color, heap[RenderTarget].depth})
          /\ pc' = "draw_loop"
          /\ null_calls' = null_calls
       \/ /\ HasNull(DrawHandles)
          /\ NullCall("draw_triangle", "draw_loop")
          /\ UNCHANGED <<heap, stale_calls>>
    /\ UNCHANGED <<driver, model, glob, raster, uniform, i, anim, pixel_writes,
                   output, saved, scratch>>

\* The loop of render_model ends and render_model returns.
RenderReturn ==
    /\ pc = "draw_loop"
    /\ ~MoreTriangles
    /\ pc' = "save_image"
    /\ UNCHANGED <<driver, heap, model, glob, raster, uniform, i, t, anim, calls,
                   null_calls, stale_calls, pixel_writes, output, frame_log,
                   saved, scratch>>

-----------------------------------------------------------------------------
(* main, after render_model                                                  *)

Draws(log) == Len(SelectSeq(log, LAMBDA e : e.op = "draw_triangle"))

\* sprintf(image_name, ..., i); save_image(color_buffer, image_name, true);
SaveImage ==
    /\ pc = "save_image"
    /\ saved' = Append(saved, [name |-> image_name(i), frame |-> i,
                               texture |-> glob.color_buffer,
                               draws |-> Draws(frame_log),
                               clears |-> calls.clear_framebuffer])
    /\ calls' = Count("save_image")
    /\ i' = i + 1
    /\ \/ /\ glob.color_buffer # NULL
          /\ Track("save_image", {glob.color_buffer})
          /\ pc' = "loop_head"
          /\ null_calls' = null_calls
       \/ /\ glob.color_buffer = NULL
          /\ NullCall("save_image", "loop_head")
          /\ UNCHANGED stale_calls
    /\ UNCHANGED <<driver, heap, model, glob, raster, uniform, t, anim,
                   pixel_writes, output, frame_log, scratch>>

\* destroy_texture(shadow_map); destroy_texture(color_buffer); ...
RenderingHandles ==
    <<glob.shadow_map, glob.color_buffer, glob.depth_buffer,
      glob.shadow_framebuffer, glob.framebuffer>>

EndRendering ==
    /\ pc = "end_rendering"
    /\ heap' = Destroy(heap, RenderingHandles)
    /\ calls' = Count("end_rendering")
    /\ pc' = "cleanup"
    /\ UNCHANGED <<driver, model, glob, raster, uniform, i, t, anim, null_calls,
                   stale_calls, pixel_writes, output, frame_log, saved, scratch>>

\* destroy_mesh(model.mesh); destroy_texture(model.base_color_map); ... return 0;
Cleanup ==
    /\ pc = "cleanup"
    /\ heap' = Destroy(heap, ModelHandles)
    /\ pc' = "done"
    /\ UNCHANGED <<driver, model, glob, raster, uniform, i, t, anim, calls,
                   null_calls, stale_calls, pixel_writes, output, frame_log,
                   saved, scratch>>

Next ==
    \/ LoadMesh
    \/ LoadTextures
    \/ CheckTextures
    \/ SetDefaults
    \/ InitCreateShadow
    \/ InitSetShadowPixels
    \/ InitAttachShadow
    \/ InitCreateMain
    \/ InitAttachColor
    \/ InitAttachDepth
    \/ LoopHead
    \/ SetViewport
    \/ SetVertexShader
    \/ SetFragmentShader
    \/ SetClearColor
    \/ ClearFramebuffer
    \/ BuildUniform
    \/ DrawTriangle
    \/ RenderReturn
    \/ SaveImage
    \/ EndRendering
    \/ Cleanup

Spec == Init /\ [][Next]_vars

-----------------------------------------------------------------------------
(* The scale-bias matrix of render_model applied to light clip-space points. *)
(* A point <<x, y, z, w>> holds numerators over CoordDen; the transformed    *)
(* point holds numerators over 2 * CoordDen.                                 *)

ClipPoints ==
    {<<x, y, z, w>> : x \in -CoordDen..CoordDen, y \in -CoordDen..CoordDen,
                      z \in -CoordDen..CoordDen, w \in {CoordDen, 2 * CoordDen}}

InitScaleBias ==
    /\ driver \in {"violin", "eagle"}
    /\ pc = "scale_bias"
    /\ InitCommon
    /\ sb_in \in ClipPoints
    /\ sb_out = <<>>

\* uniform.world2light = matrix4x4_multiply(scale_bias, light_world2clip):
\* scale_bias is applied to the point light_world2clip produced.
ApplyScaleBias ==
    /\ pc = "scale_bias"
    /\ sb_out' = matrix4x4_multiply_vector4(scale_bias, sb_in)
    /\ pc' = "scale_bias_done"
    /\ UNCHANGED <<driver, heap, model, glob, raster, uniform, i, t, anim, calls,
                   null_calls, stale_calls, pixel_writes, output, frame_log,
                   saved, sb_in>>

NextScaleBias == ApplyScaleBias

SpecScaleBias == InitScaleBias /\ [][NextScaleBias]_vars

-----------------------------------------------------------------------------
(* Properties.                                                               *)

MaterialFields == {"base_color_map", "normal_map", "metallic_map", "roughness_map"}
RenderingFields == {"shadow_framebuffer", "shadow_map", "framebuffer",
                    "color_buffer", "depth_buffer"}

\* Positions inside render_model, and inside one turn of main's loop body.
RenderPcs == {"set_viewport", "set_vertex_shader", "set_fragment_shader",
              "set_clear_color", "clear_framebuffer", "build_uniform", "draw_loop"}
FramePcs == RenderPcs \cup {"save_image"}
AfterLoopPcs == {"end_rendering", "cleanup", "done"}

\* load_mesh returned NULL / a material texture is NULL after the four calls.
MeshLoadFailed == pc # "load_mesh" /\ model.mesh = NULL
TextureLoadFailed ==
    /\ pc \notin {"load_mesh", "load_textures"}
    /\ model.mesh # NULL
    /\ \E f \in MaterialFields : model[f] = NULL

\* C1: when load_mesh returns NULL or one of the four material textures is
\* NULL, main prints its message and returns: initialize_rendering,
\* render_model, clear_framebuffer, draw_triangle and save_image are never
\* called, no frame is rendered and no image is written.
C1_LoadFailureRendersNothing ==
    (MeshLoadFailed \/ TextureLoadFailed) =>
        /\ pc \in {"check_textures", "done"}
        /\ calls = NoCalls
        /\ saved = <<>>
        /\ frame_log = <<>>
        /\ \A f \in RenderingFields : glob[f] = NULL
        /\ pc = "done" =>
              output = <<IF MeshLoadFailed THEN "Cannot load .obj file.\n"
                         ELSE "Cannot load texture files.\n">>

C1_Witness ==
    /\ pc = "done"
    /\ TextureLoadFailed
    /\ model.base_color_map # NULL
    /\ heap[model.base_color_map].destroys = 1
    /\ output = <<"Cannot load texture files.\n">>

\* C2: a create_framebuffer or create_texture of initialize_rendering that
\* returns NULL stops the run before any frame: no library call is ever
\* handed a NULL framebuffer or texture, and the frame loop is entered only
\* with all five rendering resources created.
C2_InitFailurePropagated ==
    /\ null_calls = {}
    /\ pc \in FramePcs \cup {"loop_head"} =>
          \A f \in RenderingFields : glob[f] # NULL

\* C3: every set_texture_pixels call is given a buffer of exactly
\* width x height x bytes-per-pixel bytes of its texture.
C3_PixelBuffersMatch ==
    \A k \in 1..Len(pixel_writes) :
        pixel_writes[k].supplied = pixel_writes[k].required

\* C4: no object is destroyed twice, none is handed to the library after its
\* destroy, every created object has been destroyed exactly once when main
\* returns, and the resources of initialize_rendering are destroyed only by
\* end_rendering, after the last frame was saved.
C4_ReleasedExactlyOnce ==
    /\ \A x \in DOMAIN heap : heap[x].destroys <= 1
    /\ stale_calls = {}
    /\ pc = "done" => \A x \in DOMAIN heap : heap[x].destroys = 1
    /\ \A f \in RenderingFields :
          (glob[f] # NULL /\ heap[glob[f]].destroys > 0) =>
              /\ pc \in {"cleanup", "done"}
              /\ calls.end_rendering = 1
              /\ calls.save_image = frame_count

C4_Witness ==
    /\ pc = "done"
    /\ Len(heap) = 10
    /\ \A x \in DOMAIN heap : heap[x].destroys = 1
    /\ calls.save_image = frame_count

\* C5: the loop runs exactly 135 frames, i = 0..134 and t = i / 135, so
\* 0 <= t < 1; the eagle's rotation_y at render_model is 0 at frame 0,
\* -0.94 x 134 / 135 at frame 134, and never -0.94.
C5_FrameParameters ==
    /\ frame_count = 135
    /\ i \in 0..135
    /\ pc \in FramePcs =>
          /\ i \in 0..134
          /\ calls.render_model = i + 1
          /\ RatEq(anim.t, <<i, 135>>)
          /\ RatLe(<<0, 1>>, anim.t)
          /\ RatLt(anim.t, <<1, 1>>)
    /\ (pc \in FramePcs /\ driver = "eagle") =>
          /\ RatEq(glob.rotation_y, <<-94 * i, 100 * 135>>)
          /\ i = 0 => RatEq(glob.rotation_y, <<0, 1>>)
          /\ i = 134 => RatEq(glob.rotation_y, <<-94 * 134, 100 * 135>>)
          /\ ~RatEq(glob.rotation_y, <<-94, 100>>)
    /\ (pc \in AfterLoopPcs /\ calls.initialize_rendering = 1) =>
          calls.render_model = 135

C5_Witness ==
    /\ driver = "eagle"
    /\ pc = "save_image"
    /\ i = 134
    /\ RatEq(glob.rotation_y, <<-12596, 13500>>)

\* The three decimal digits of k < 1000.
ThreeDigits(k) == <<k \div 100, (k \div 10) % 10, k % 10>>

\* C6: save_image is called once per rendered frame, after every draw of
\* that frame and before the clear of the next, with the name made of the
\* 3-digit zero-padded frame index; no two frames share a name.
C6_OneImagePerFrame ==
    /\ \A k \in 1..Len(saved) :
          /\ saved[k].frame = k - 1
          /\ saved[k].name.digits = ThreeDigits(k - 1)
          /\ saved[k].name.prefix = (IF driver = "violin" THEN "violin/v-" ELSE "eagle/e-")
          /\ saved[k].name.suffix = ".tga"
          /\ saved[k].draws = heap[model.mesh].triangle_count
          /\ saved[k].clears = k
    /\ Cardinality({saved[k].name : k \in 1..Len(saved)}) = Len(saved)
    /\ Len(saved) = calls.save_image
    /\ pc \in FramePcs => Len(saved) = calls.render_model - 1
    /\ pc = "loop_head" => Len(saved) = calls.render_model
    /\ (pc \in AfterLoopPcs /\ calls.initialize_rendering = 1) =>
          Len(saved) = frame_count

C6_Witness ==
    /\ pc = "done"
    /\ Len(saved) = 135
    /\ saved[135].name.digits = <<1, 3, 4>>

\* World positions of fragments, <<x, y, z, 1>>.
WorldPoints == {<<x, y, z, 1>> : x \in -1..1, y \in -1..1, z \in -1..1}

\* The shadow comparison of the standard fragment shader with bias 0: the
\* reference depth (in halves) is at most the stored depth 1.0.
ShadowLit(p) == matrix4x4_multiply_vector4(uniform.world2light, p)[3] <= 2

\* C7: at every draw_triangle call the uniform block's shadow map is the
\* 1x1 DEPTH_FLOAT texture still holding 1.0, and the shadow comparison is
\* lit for every fragment.
C7_ShadowMapAlwaysLit ==
    (pc = "draw_loop" /\ MoreTriangles) =>
        /\ uniform.shadow_map # NULL
        /\ heap[uniform.shadow_map].format = "DEPTH_FLOAT"
        /\ heap[uniform.shadow_map].width = 1
        /\ heap[uniform.shadow_map].height = 1
        /\ heap[uniform.shadow_map].written = "set"
        /\ heap[uniform.shadow_map].data = FloatOne
        /\ glob.light_world2clip = ZeroMatrix
        /\ \A p \in WorldPoints : ShadowLit(p)

\* C8: scale_bias maps (-1,-1,-1,1) to (0,0,0,1) and (1,1,1,1) to (1,1,1,1);
\* it leaves w unchanged and, for w = 1, maps each coordinate c in [-1,1] to
\* 0.5 c + 0.5 in [0,1].
C8_ScaleBiasRemaps ==
    pc = "scale_bias_done" =>
        /\ sb_out[4] = 2 * sb_in[4]
        /\ sb_in[4] = CoordDen =>
              \A c \in 1..3 : /\ sb_out[c] = sb_in[c] + CoordDen
                              /\ sb_out[c] \in 0..(2 * CoordDen)
        /\ sb_in = <<-CoordDen, -CoordDen, -CoordDen, CoordDen>> =>
              sb_out = <<0, 0, 0, 2 * CoordDen>>
        /\ sb_in = <<CoordDen, CoordDen, CoordDen, CoordDen>> =>
              sb_out = <<2 * CoordDen, 2 * CoordDen, 2 * CoordDen, 2 * CoordDen>>

C8_Witness ==
    /\ pc = "scale_bias_done"
    /\ sb_in = <<-CoordDen, -CoordDen, -CoordDen, CoordDen>>
    /\ sb_out = <<0, 0, 0, 2 * CoordDen>>

\* A clear_framebuffer or draw_triangle call is about to be made.
AtClearOrDraw ==
    \/ pc = "clear_framebuffer"
    \/ pc = "draw_loop" /\ MoreTriangles

\* C9: a framebuffer that is cleared or drawn into has a DEPTH_FLOAT texture
\* in its depth slot and, with both slots bound, textures of equal width and
\* height that are the viewport's; the shadow framebuffer has no color
\* attachment and is never the target.
C9_TargetWellFormed ==
    /\ (AtClearOrDraw /\ RenderTarget # NULL) =>
          LET fb == heap[RenderTarget] IN
          /\ RenderTarget # glob.shadow_framebuffer
          /\ fb.depth # NULL => heap[fb.depth].format = "DEPTH_FLOAT"
          /\ (fb.color # NULL /\ fb.depth # NULL) =>
                /\ heap[fb.color].width = heap[fb.depth].width
                /\ heap[fb.color].height = heap[fb.depth].height
                /\ raster.viewport =
                      <<0, 0, heap[fb.color].width, heap[fb.color].height>>
    /\ glob.shadow_framebuffer # NULL =>
          /\ heap[glob.shadow_framebuffer].color = NULL
          /\ heap[glob.shadow_framebuffer].depth \in {NULL, glob.shadow_map}
          /\ heap[glob.shadow_framebuffer].depth # NULL =>
                heap[heap[glob.shadow_framebuffer].depth].format = "DEPTH_FLOAT"

C9_Witness ==
    /\ pc = "draw_loop"
    /\ MoreTriangles
    /\ \A f \in RenderingFields : glob[f] # NULL
    /\ heap[RenderTarget].color = glob.color_buffer
    /\ heap[RenderTarget].depth = glob.depth_buffer
    /\ heap[glob.color_buffer].width = IMAGE_WIDTH
    /\ heap[glob.depth_buffer].height = IMAGE_HEIGHT
    /\ heap[glob.shadow_framebuffer].depth = glob.shadow_map

\* The calls of one render_model of a mesh of n triangles, in order.
FrameProtocol(n) ==
    <<[op |-> "set_viewport", arg |-> <<0, 0, IMAGE_WIDTH, IMAGE_HEIGHT>>],
      [op |-> "set_vertex_shader", arg |-> "standard_vertex_shader"],
      [op |-> "set_fragment_shader", arg |-> "standard_fragment_shader"],
      [op |-> "set_clear_color", arg |-> <<0, 0, 0, 0>>],
      [op |-> "clear_framebuffer", arg |-> glob.framebuffer]>>
    \o [k \in 1..n |-> [op |-> "draw_triangle", arg |-> k - 1]]

IsPrefix(log, full) ==
    /\ Len(log) <= Len(full)
    /\ \A k \in 1..Len(log) : log[k].op = full[k].op /\ log[k].arg = full[k].arg

\* C10: in every frame set_viewport, set_vertex_shader, set_fragment_shader,
\* set_clear_color(0,0,0,0) and clear_framebuffer happen once each, in that
\* order, before the first draw_triangle; then one draw_triangle per mesh
\* triangle in the order 0..triangle_count-1, and nothing else in between.
C10_FrameProtocol ==
    /\ frame_log # <<>> =>
          IsPrefix(frame_log, FrameProtocol(heap[model.mesh].triangle_count))
    /\ pc = "save_image" =>
          Len(frame_log) = 5 + heap[model.mesh].triangle_count
    /\ pc = "draw_loop" =>
          /\ Len(frame_log) = 5 + t
          /\ raster = [viewport |-> <<0, 0, IMAGE_WIDTH, IMAGE_HEIGHT>>,
                       vertex_shader |-> "standard_vertex_shader",
                       fragment_shader |-> "standard_fragment_shader",
                       clear_color |-> <<0, 0, 0, 0>>]

C10_Witness ==
    /\ pc = "save_image"
    /\ i = 1
    /\ Draws(frame_log) = 2
    /\ frame_log[6].arg = 0
    /\ frame_log[7].arg = 1

====
